---- MODULE Spec2Model ----
(***************************************************************************)
(* ORION consciousness assessment for spiking neural networks:             *)
(* SNNConsciousnessAssessor (scoring, aggregation, proof chain, history)   *)
(* and EIRABridge (status), from src/orion_snn_consciousness.py.           *)
(*                                                                         *)
(* Numbers.  Python values are tagged records [t |-> type, v |-> value].   *)
(* Real-valued inputs (synchrony_index, information_transfer, oscillation  *)
(* powers, mean_firing_rate) are integers counting thousandths; counts     *)
(* (n_neurons, recurrence_depth) are plain integers.  A raw theory score   *)
(* is an integer counting 1/10000, a rounded score counts thousandths, the *)
(* weights count hundredths and the reported credence counts tenths of a   *)
(* percent.  The input sets hold no value whose score lands on a rounding  *)
(* tie, so binary floating point and this exact arithmetic agree on them.  *)
(***************************************************************************)
EXTENDS Integers, Sequences, FiniteSets, TLC

\* assessments[a], proof_chain[a] : the two fields of assessor a
\* bridge      : the assessor the EIRABridge wraps, "none" before it is built
\* result      : the last operation, its arguments and what it returned
\* call_log[a] : history variable, the (spike_data, now) of a's successful calls
\* ncalls      : history variable, the assess_from_spikes calls made so far
\* built_at    : history variable, len(assessments) of the wrapped assessor
\*               when the bridge was built
VARIABLES assessments, proof_chain, bridge, result, call_log, ncalls, built_at

vars == <<assessments, proof_chain, bridge, result, call_log, ncalls, built_at>>

(* ---------------------------------------------------------------- bounds *)

\* assess_from_spikes calls made in one behaviour of Spec
MaxCalls == 3
\* readings of the clock: datetime.now() returns one of 1..MaxNow
MaxNow == 2

(* --------------------------------------------------------- Python values *)

PyBool(b) == [t |-> "bool", v |-> b]
PyNum(x) == [t |-> "num", v |-> x]
PyStr(s) == [t |-> "str", v |-> s]
PyDict(f) == [t |-> "dict", v |-> f]
PyNone == [t |-> "None"]
\* a value json cannot encode but str() can (default=str applies)
PyObject == [t |-> "object"]
\* a list that contains itself: json.dumps raises ValueError on it
PyCycle == [t |-> "cycle"]

\* the empty dict {}
EmptyMap == [k \in {} |-> PyNone]

\* d.get(k, default), d a Python dict
DictGet(d, k, default) == IF k \in DOMAIN d.v THEN d.v[k] ELSE default

\* d[k] = x
SetItem(d, k, x) ==
    PyDict([j \in DOMAIN d.v \cup {k} |-> IF j = k THEN x ELSE d.v[j]])

\* bool(x)
Truthy(x) ==
    CASE x.t = "bool" -> x.v
      [] x.t = "num" -> x.v # 0
      [] x.t = "None" -> FALSE
      [] x.t = "dict" -> DOMAIN x.v # {}
      [] x.t = "str" -> Len(x.v) > 0
      [] OTHER -> TRUE

\* x and y
PyAnd(x, y) == IF Truthy(x) THEN y ELSE x

\* x is True
IsTrue(x) == x.t = "bool" /\ x.v

Min(a, b) == IF a <= b THEN a ELSE b

\* round(): x counts 1/d of the result's unit; ties go to the even neighbour
RoundHalfEven(x, d) ==
    LET q == x \div d
        r == x % d
    IN  IF 2 * r < d THEN q
        ELSE IF 2 * r > d THEN q + 1
        ELSE IF q % 2 = 0 THEN q ELSE q + 1

\* round(score, 3): 1/10000 to thousandths
Round3(raw) == RoundHalfEven(raw, 10)

(* ---------------------------------------------------------------- scoring *)

THEORIES == <<"RPT", "GWT", "HOT", "PP", "AST">>

\* faulty variant: the AST weight mistyped, the weights summing to 1.10
weights_mistyped == <<20, 25, 20, 20, 25>>

weights == <<20, 25, 20, 20, 15>>

n_of(spike_data) == DictGet(spike_data, "n_neurons", PyNum(0))
sync_of(spike_data) == DictGet(spike_data, "synchrony_index", PyNum(0))
rate_of(spike_data) == DictGet(spike_data, "mean_firing_rate", PyNum(0))
rec_of(spike_data) == DictGet(spike_data, "recurrence_depth", PyNum(0))
oscillations_of(spike_data) ==
    DictGet(spike_data, "population_oscillations", PyDict(EmptyMap))
gamma_power_of(spike_data) == DictGet(oscillations_of(spike_data), "gamma", PyNum(0))
theta_power_of(spike_data) == DictGet(oscillations_of(spike_data), "theta", PyNum(0))
alpha_power_of(spike_data) == DictGet(oscillations_of(spike_data), "alpha", PyNum(0))

\* 0.3 * min(1, power / 0.5) if power > 0 else 0, in 1/10000
BandTerm(power) == IF power.v > 0 THEN 3 * Min(1000, 2 * power.v) ELSE 0

\* faulty variant: network_recurrence defaulting to True
has_rec_default_true(spike_data) ==
    DictGet(spike_data, "network_recurrence", PyBool(TRUE))

has_rec_of(spike_data) == DictGet(spike_data, "network_recurrence", PyBool(FALSE))

rpt_score(spike_data) ==
    Min(10000,
        (IF Truthy(has_rec_of(spike_data)) THEN 3000 ELSE 0)
      + (IF rec_of(spike_data).v > 3 THEN 2000 ELSE 0)
      + (IF Truthy(DictGet(spike_data, "has_top_down_connections", PyNone))
            THEN 2000 ELSE 0)
      + BandTerm(gamma_power_of(spike_data)))

RPT(spike_data) ==
    PyDict([recurrent_processing |-> has_rec_of(spike_data),
            feedback_depth |-> rec_of(spike_data),
            gamma_oscillations |-> PyBool(gamma_power_of(spike_data).v > 200),
            score |-> PyNum(Round3(rpt_score(spike_data)))])

\* faulty variant: the broadcast thresholds taken inclusively
has_broadcast_inclusive(spike_data) ==
    PyAnd(PyBool(sync_of(spike_data).v >= 500), PyBool(n_of(spike_data).v >= 500))

has_broadcast(spike_data) ==
    PyAnd(PyBool(sync_of(spike_data).v > 500), PyBool(n_of(spike_data).v > 500))

ignition(spike_data) ==
    PyAnd(PyBool(gamma_power_of(spike_data).v > 400),
          PyBool(sync_of(spike_data).v > 600))

gwt_score(spike_data) ==
    Min(10000,
        (IF Truthy(has_broadcast(spike_data)) THEN 4000 ELSE 0)
      + (IF Truthy(ignition(spike_data)) THEN 3000 ELSE 0)
      + 3 * DictGet(spike_data, "information_transfer", PyNum(0)).v)

GWT(spike_data) ==
    PyDict([global_broadcast |-> has_broadcast(spike_data),
            ignition_detected |-> ignition(spike_data),
            information_transfer |->
                DictGet(spike_data, "information_transfer", PyNum(0)),
            score |-> PyNum(Round3(gwt_score(spike_data)))])

has_hierarchy(spike_data) ==
    PyAnd(PyBool(rec_of(spike_data).v > 4),
          DictGet(spike_data, "has_top_down_connections", PyBool(FALSE)))

hot_score(spike_data) ==
    Min(10000,
        (IF Truthy(has_hierarchy(spike_data)) THEN 4000 ELSE 0)
      + (IF Truthy(DictGet(spike_data, "has_lateral_inhibition", PyNone))
            THEN 3000 ELSE 0)
      + BandTerm(alpha_power_of(spike_data)))

HOT(spike_data) ==
    PyDict([hierarchical_processing |-> has_hierarchy(spike_data),
            lateral_inhibition |->
                DictGet(spike_data, "has_lateral_inhibition", PyBool(FALSE)),
            alpha_modulation |-> PyBool(alpha_power_of(spike_data).v > 200),
            score |-> PyNum(Round3(hot_score(spike_data)))])

has_stdp(spike_data) == DictGet(spike_data, "has_synaptic_plasticity", PyBool(FALSE))

pp_score(spike_data) ==
    Min(10000,
        (IF Truthy(has_stdp(spike_data)) THEN 4000 ELSE 0)
      + (IF Truthy(DictGet(spike_data, "has_top_down_connections", PyNone))
            THEN 3000 ELSE 0)
      + BandTerm(theta_power_of(spike_data)))

PP(spike_data) ==
    PyDict([synaptic_plasticity |-> has_stdp(spike_data),
            top_down_predictions |->
                DictGet(spike_data, "has_top_down_connections", PyBool(FALSE)),
            theta_oscillations |-> PyBool(theta_power_of(spike_data).v > 200),
            score |-> PyNum(Round3(pp_score(spike_data)))])

has_attention(spike_data) ==
    PyAnd(DictGet(spike_data, "has_lateral_inhibition", PyBool(FALSE)),
          PyBool(sync_of(spike_data).v > 300))

ast_score(spike_data) ==
    Min(10000,
        (IF Truthy(has_attention(spike_data)) THEN 5000 ELSE 0)
      + (IF Truthy(DictGet(spike_data, "has_attention_mechanism", PyBool(FALSE)))
            THEN 5000 ELSE 0))

AST(spike_data) ==
    PyDict([attention_mechanism |-> has_attention(spike_data),
            attention_schema |->
                DictGet(spike_data, "has_attention_mechanism", PyBool(FALSE)),
            score |-> PyNum(Round3(ast_score(spike_data)))])

Indicators(spike_data) ==
    PyDict([RPT |-> RPT(spike_data), GWT |-> GWT(spike_data),
            HOT |-> HOT(spike_data), PP |-> PP(spike_data),
            AST |-> AST(spike_data)])

(* ------------------------------------------------------------ aggregation *)

RECURSIVE SumSeq(_)
SumSeq(s) == IF s = <<>> THEN 0 ELSE Head(s) + SumSeq(Tail(s))

\* scores = [indicators[t]["score"] for t in self.THEORIES], thousandths
scores(indicators) ==
    [i \in 1..Len(THEORIES) |-> indicators.v[THEORIES[i]].v.score.v]

\* sum(s * w for s, w in zip(scores, weights)), in 1/100000
credence(indicators) ==
    SumSeq([i \in 1..Len(THEORIES) |-> scores(indicators)[i] * weights[i]])

\* faulty variant: every truthy sub-signal counted ("if v" for "v is True")
TruthySignals(indicator) ==
    {k \in DOMAIN indicator.v : k # "score" /\ Truthy(indicator.v[k])}

\* the sub-signals of one theory's indicator that are literally True
TrueSignals(indicator) ==
    {k \in DOMAIN indicator.v : k # "score" /\ IsTrue(indicator.v[k])}

total_ind(indicators) ==
    SumSeq([i \in 1..Len(THEORIES) |->
                Cardinality(TrueSignals(indicators.v[THEORIES[i]]))])

Digits == <<"0", "1", "2", "3", "4", "5", "6", "7", "8", "9">>

\* str(n) for an integer n >= 0
RECURSIVE DecStr(_)
DecStr(n) ==
    IF n < 10 THEN <<Digits[n + 1]>>
    ELSE Append(DecStr(n \div 10), Digits[(n % 10) + 1])

\* f"{total_ind}/14"
SatisfiedIndicators(indicators) ==
    DecStr(total_ind(indicators)) \o <<"/", "1", "4">>

\* round(credence * 100, 1), in tenths of a percent
Summary(indicators) ==
    PyDict([credence |-> PyNum(RoundHalfEven(credence(indicators), 100)),
            satisfied_indicators |-> PyStr(SatisfiedIndicators(indicators))])

\* datetime.now(timezone.utc).isoformat() at clock reading now
IsoFormat(now) == <<"T">> \o DecStr(now) \o <<"+", "0", "0", ":", "0", "0">>

\* faulty variant: the summary carrying the time it was generated at
AssessmentStamped(spike_data, now) ==
    PyDict([timestamp |-> PyStr(IsoFormat(now)),
            snn_config |->
                PyDict([n_neurons |-> n_of(spike_data),
                        mean_firing_rate_hz |-> rate_of(spike_data),
                        synchrony |-> sync_of(spike_data),
                        oscillation_bands |-> oscillations_of(spike_data)]),
            indicators |-> Indicators(spike_data),
            summary |-> SetItem(Summary(Indicators(spike_data)), "timestamp",
                                PyStr(IsoFormat(now)))])

\* the assessment dict before the proof is attached
Assessment(spike_data, now) ==
    PyDict([timestamp |-> PyStr(IsoFormat(now)),
            snn_config |->
                PyDict([n_neurons |-> n_of(spike_data),
                        mean_firing_rate_hz |-> rate_of(spike_data),
                        synchrony |-> sync_of(spike_data),
                        oscillation_bands |-> oscillations_of(spike_data)]),
            indicators |-> Indicators(spike_data),
            summary |-> Summary(Indicators(spike_data))])

(* ------------------------------------------------------------- provenance *)

\* every key of an assessment, in the order sort_keys=True puts them
KeyOrder ==
    <<"AST", "GWT", "HOT", "PP", "RPT", "alpha", "alpha_modulation",
      "attention_mechanism", "attention_schema", "credence", "delta",
      "feedback_depth", "gamma", "gamma_oscillations", "global_broadcast",
      "hierarchical_processing", "ignition_detected", "indicators",
      "information_transfer", "lateral_inhibition", "mean_firing_rate_hz",
      "n_neurons", "oscillation_bands", "proof", "recurrent_processing",
      "satisfied_indicators", "score", "snn_config", "summary",
      "synaptic_plasticity", "synchrony", "theta", "theta_oscillations",
      "timestamp", "top_down_predictions">>

Chars ==
    <<"0", "1", "2", "3", "4", "5", "6", "7", "8", "9", "a", "b", "c", "d",
      "e", "f", "/", ":", "+", "T", "s", "h">>

CharCode(c) == CHOOSE i \in 1..Len(Chars) : Chars[i] = c

\* json.dumps raises on x (circular reference; default=str covers the rest)
RECURSIVE JsonRaises(_)
JsonRaises(x) ==
    CASE x.t = "cycle" -> TRUE
      [] x.t = "dict" -> \E k \in DOMAIN x.v : JsonRaises(x.v[k])
      [] OTHER -> FALSE

\* sorted(d): the ranks in KeyOrder of the keys of d, ascending
SortedKeys(d) ==
    SelectSeq([i \in 1..Len(KeyOrder) |-> i], LAMBDA i : KeyOrder[i] \in DOMAIN d)

\* json.dumps(x, sort_keys=True, default=str).encode(): a sequence of tokens,
\* one code per key (its rank in KeyOrder), per character and per number
RECURSIVE JsonDumps(_), JsonItems(_, _)
JsonDumps(x) ==
    CASE x.t = "bool" -> <<1, IF x.v THEN 1 ELSE 0>>
      [] x.t = "num" -> <<2, x.v>>
      [] x.t = "None" -> <<3>>
      [] x.t = "str" -> <<4>> \o [i \in 1..Len(x.v) |-> CharCode(x.v[i])] \o <<4>>
      [] x.t = "object" -> <<5>>
      [] x.t = "dict" -> <<6>> \o JsonItems(x.v, SortedKeys(x.v)) \o <<7>>

JsonItems(d, keys) ==
    IF keys = <<>> THEN <<>>
    ELSE <<Head(keys)>> \o JsonDumps(d[KeyOrder[Head(keys)]])
             \o JsonItems(d, Tail(keys))

HexDigits ==
    <<"0", "1", "2", "3", "4", "5", "6", "7", "8", "9", "a", "b", "c", "d",
      "e", "f">>

\* the digest's state after absorbing bytes[lo..hi]: a position-weighted sum
\* standing for SHA-256's compression, a function of every token and its place
RECURSIVE Absorb(_, _, _)
Absorb(bytes, lo, hi) ==
    IF lo > hi THEN 0
    ELSE IF lo = hi THEN (bytes[lo] + 7) * (((lo * 37) % 101) + 1)
    ELSE LET mid == (lo + hi) \div 2
         IN  Absorb(bytes, lo, mid) + Absorb(bytes, mid + 1, hi)

\* 16^0 .. 16^3
Pow16 == <<1, 16, 256, 4096>>

\* hexdigest() of the digest state h: 64 hex characters
HexDigest(h) ==
    [i \in 1..64 |->
        HexDigits[(((h \div Pow16[((i - 1) % 4) + 1]) + ((i - 1) \div 4)) % 16) + 1]]

\* hashlib.sha256(bytes).hexdigest(), a function of bytes
Sha256Hex(bytes) == HexDigest((40503 + Absorb(bytes, 1, Len(bytes))) % 65521)

\* faulty variant: the digest kept whole, not cut to 32 characters
ProofHashWhole(assessment) == Sha256Hex(JsonDumps(assessment))

\* hashlib.sha256(json.dumps(assessment, ...).encode()).hexdigest()[:32]
ProofHash(assessment) == SubSeq(Sha256Hex(JsonDumps(assessment)), 1, 32)

\* f"sha256:{proof_hash}"
ProofField(proof_hash) == <<"s", "h", "a", "2", "5", "6", ":">> \o proof_hash

GENESIS == <<"G", "E", "N", "E", "S", "I", "S">>

(* ------------------------------------------------------------ the assessor *)

Assessors == {"a1", "a2"}

\* the values datetime.now() can return
Timestamps == 1..MaxNow

\* assessment["proof"] = f"sha256:{proof_hash}"
WithProof(assessment, proof_hash) ==
    SetItem(assessment, "proof", PyStr(ProofField(proof_hash)))

\* what one call computes from its argument and the clock, before it touches
\* self: the assessment and its digest, or the exception json.dumps raises
Digested(assessment) ==
    IF JsonRaises(assessment) THEN [raised |-> TRUE, assessment |-> assessment]
    ELSE [raised |-> FALSE, proof_hash |-> ProofHash(assessment),
          assessment |-> assessment]

Computed(spike_data, now) == Digested(Assessment(spike_data, now))

\* faulty variant: the digest inserted at the head of the chain
AppendProofAtHead(chain, c) ==
    IF c.raised THEN chain ELSE <<c.proof_hash>> \o chain

\* self.proof_chain after the call: the digest is taken first, and a
\* json.dumps that raises ends the call before the append
AppendProof(chain, c) ==
    IF c.raised THEN chain ELSE Append(chain, c.proof_hash)

\* faulty variant: the assessment appended before the digest is taken
AppendAssessmentEarly(history, c) ==
    IF c.raised THEN Append(history, c.assessment)
    ELSE Append(history, WithProof(c.assessment, c.proof_hash))

\* self.assessments after the call: the append is the call's last statement
AppendAssessment(history, c) ==
    IF c.raised THEN history
    ELSE Append(history, WithProof(c.assessment, c.proof_hash))

\* SNNConsciousnessAssessor.__init__ for every assessor; no bridge yet
Init ==
    /\ assessments = [a \in Assessors |-> <<>>]
    /\ proof_chain = [a \in Assessors |-> <<GENESIS>>]
    /\ bridge = "none"
    /\ result = [op |-> "init"]
    /\ call_log = [a \in Assessors |-> <<>>]
    /\ ncalls = 0
    /\ built_at = 0

\* a.assess_from_spikes(spike_data), the clock reading now; c is what the
\* call computes, Computed(spike_data, now)
AssessFromSpikes(a, spike_data, now, c) ==
    /\ proof_chain' = [proof_chain EXCEPT ![a] = AppendProof(@, c)]
    /\ assessments' = [assessments EXCEPT ![a] = AppendAssessment(@, c)]
    /\ result' = [op |-> "assess_from_spikes", assessor |-> a,
                  spike_data |-> spike_data, now |-> now, raised |-> c.raised,
                  value |-> IF c.raised THEN PyNone
                            ELSE WithProof(c.assessment, c.proof_hash)]
    /\ call_log' =
           IF c.raised THEN call_log
           ELSE [call_log EXCEPT
                    ![a] = Append(@, [spike_data |-> spike_data, now |-> now])]
    /\ ncalls' = ncalls + 1
    /\ UNCHANGED <<bridge, built_at>>

\* EIRABridge(a)
EIRABridgeInit(a) ==
    /\ bridge # a
    /\ bridge' = a
    /\ result' = [op |-> "EIRABridge", assessor |-> a]
    /\ built_at' = Len(assessments[a])
    /\ UNCHANGED <<assessments, proof_chain, call_log, ncalls>>

\* faulty variant: the count taken when the bridge was built
StatusAssessmentsAtBuild(a) == built_at

\* len(self.assessor.assessments)
StatusAssessments(a) == Len(assessments[a])

\* the dict status() returns
StatusValue(a) ==
    [module |-> "ORION-Brian2-Consciousness",
     assessments |-> StatusAssessments(a),
     capabilities |-> <<"snn_consciousness_assessment", "spike_train_analysis",
                        "oscillation_mapping", "14_indicator_assessment">>]

\* bridge.status()
Status ==
    /\ bridge # "none"
    /\ result' = [op |-> "status", assessor |-> bridge, value |-> StatusValue(bridge)]
    /\ UNCHANGED <<assessments, proof_chain, bridge, call_log, ncalls, built_at>>

(* ------------------------------------------------------------------ inputs *)

\* {} : every field absent
EmptyInput == PyDict(EmptyMap)

\* the record of the __main__ demonstration
DemoInput ==
    PyDict([n_neurons |-> PyNum(10000), n_excitatory |-> PyNum(8000),
            n_inhibitory |-> PyNum(2000), mean_firing_rate |-> PyNum(15000),
            synchrony_index |-> PyNum(550), network_recurrence |-> PyBool(TRUE),
            recurrence_depth |-> PyNum(6), has_ei_balance |-> PyBool(TRUE),
            has_synaptic_plasticity |-> PyBool(TRUE),
            has_lateral_inhibition |-> PyBool(TRUE),
            has_top_down_connections |-> PyBool(TRUE),
            has_attention_mechanism |-> PyBool(FALSE),
            population_oscillations |->
                PyDict([gamma |-> PyNum(450), theta |-> PyNum(350),
                        alpha |-> PyNum(300)]),
            information_transfer |-> PyNum(400)])

\* a band whose value is a list containing itself
CyclicInput ==
    PyDict([n_neurons |-> PyNum(10000), synchrony_index |-> PyNum(550),
            population_oscillations |->
                PyDict([gamma |-> PyNum(450), delta |-> PyCycle])])

\* a band whose value only default=str can encode
ObjectInput ==
    PyDict([n_neurons |-> PyNum(10000), synchrony_index |-> PyNum(550),
            population_oscillations |->
                PyDict([gamma |-> PyNum(450), delta |-> PyObject])])

Inputs == {EmptyInput, DemoInput, CyclicInput}

\* Computed on the inputs of Spec, evaluated once
ComputedInSpec == [spike_data \in Inputs, now \in Timestamps |->
                      Computed(spike_data, now)]

Assess ==
    \E a \in Assessors, spike_data \in Inputs, now \in Timestamps :
        /\ ncalls < MaxCalls
        /\ AssessFromSpikes(a, spike_data, now, ComputedInSpec[spike_data, now])

\* the records with field k absent or set to a value of S
Field(k, S) == {EmptyMap} \cup {k :> x : x \in S}

Flag == {PyBool(FALSE), PyBool(TRUE)}
Set == {PyBool(TRUE)}
Nums(S) == {PyNum(x) : x \in S}

\* population_oscillations absent when no band is given
WithBands(fields, bands) ==
    IF DOMAIN bands = {} THEN PyDict(fields)
    ELSE PyDict(fields @@ ("population_oscillations" :> PyDict(bands)))

\* records around the thresholds of RPT and GWT, with information_transfer and
\* gamma also outside their conventional ranges
RptGwtInputs ==
    {WithBands(n @@ sync @@ it @@ nr @@ rd @@ td, gamma) :
        n \in Field("n_neurons", Nums({500, 501})) \ {EmptyMap},
        sync \in Field("synchrony_index", Nums({500, 501, 601})),
        it \in Field("information_transfer", Nums({333, 1000, -1000, 2000})),
        nr \in Field("network_recurrence", Set),
        rd \in Field("recurrence_depth", Nums({3, 4})) \ {EmptyMap},
        td \in Field("has_top_down_connections", Set),
        gamma \in Field("gamma", Nums({200, 201, 400, 401, 3000, -100}))}

\* records around the thresholds of HOT, PP and AST
HotPpAstInputs ==
    {WithBands(rd @@ td @@ li @@ sp @@ sync @@ am, alpha @@ theta) :
        rd \in Field("recurrence_depth", Nums({4, 5})),
        td \in Field("has_top_down_connections", Flag),
        li \in Field("has_lateral_inhibition", Flag),
        sp \in Field("has_synaptic_plasticity", Set),
        sync \in Field("synchrony_index", Nums({300, 301})),
        am \in Field("has_attention_mechanism", Set),
        alpha \in Field("alpha", Nums({200, 201, 600})),
        theta \in Field("theta", Nums({201, 700}))}

\* the demonstration record with every flag false
AllFalseInput ==
    PyDict([k \in DOMAIN DemoInput.v |->
               IF DemoInput.v[k].t = "bool" THEN PyBool(FALSE) ELSE DemoInput.v[k]])

\* every flag true and every magnitude at the top of its range
SaturatedInput ==
    PyDict([k \in DOMAIN DemoInput.v |->
               IF DemoInput.v[k].t = "bool" THEN PyBool(TRUE)
               ELSE IF k = "population_oscillations"
                    THEN PyDict([gamma |-> PyNum(900), theta |-> PyNum(900),
                                 alpha |-> PyNum(900)])
               ELSE IF k \in {"synchrony_index", "information_transfer"}
                    THEN PyNum(1000)
               ELSE DemoInput.v[k]])

ScoreInputs ==
    RptGwtInputs \cup HotPpAstInputs
        \cup {EmptyInput, DemoInput, ObjectInput, AllFalseInput, SaturatedInput}

\* one call on a new assessor, on any record of ScoreInputs
AssessOnce ==
    \E spike_data \in ScoreInputs, now \in Timestamps :
        /\ ncalls = 0
        /\ AssessFromSpikes("a1", spike_data, now, Computed(spike_data, now))

ScoreSpec == Init /\ [][AssessOnce]_vars

NewBridge == \E a \in Assessors : EIRABridgeInit(a)

Next == Assess \/ NewBridge \/ Status

Spec == Init /\ [][Next]_vars

(* ------------------------------------------------------------- properties *)

\* the last operation was an assess_from_spikes call that returned
Returned == result.op = "assess_from_spikes" /\ ~result.raised

ScoreOf(assessment, theory) == assessment.v.indicators.v[theory].v.score.v

CredenceOf(assessment) == assessment.v.summary.v.credence.v

SatisfiedOf(assessment) == assessment.v.summary.v.satisfied_indicators.v

TheorySet == {THEORIES[i] : i \in 1..Len(THEORIES)}

\* the stored assessment with its proof field removed
WithoutProof(assessment) ==
    PyDict([k \in DOMAIN assessment.v \ {"proof"} |-> assessment.v[k]])

Bands(spike_data) == DictGet(spike_data, "population_oscillations", PyDict(EmptyMap))

\* numeric fields within their conventional ranges
ValidInput(spike_data) ==
    /\ DictGet(spike_data, "synchrony_index", PyNum(0)).v \in 0..1000
    /\ DictGet(spike_data, "information_transfer", PyNum(0)).v \in 0..1000
    /\ \A b \in DOMAIN Bands(spike_data).v :
           Bands(spike_data).v[b].t = "num" => Bands(spike_data).v[b].v >= 0
    /\ DictGet(spike_data, "n_neurons", PyNum(0)).v >= 0
    /\ DictGet(spike_data, "recurrence_depth", PyNum(0)).v >= 0

\* C1: for every valid input record each of the five theory scores lies in
\* [0, 1] and summary.credence lies in [0, 100].
C1_ScoresAndCredenceInRange ==
    (Returned /\ ValidInput(result.spike_data)) =>
        /\ \A t \in TheorySet : ScoreOf(result.value, t) \in 0..1000
        /\ CredenceOf(result.value) \in 0..1000

\* C1 witness: a valid record that drives every score to 1 and credence to 100,
\* with a band power above the cap of its ratio.
C1_Witness ==
    /\ Returned
    /\ ValidInput(result.spike_data)
    /\ DictGet(Bands(result.spike_data), "gamma", PyNum(0)).v > 500
    /\ \A t \in TheorySet : ScoreOf(result.value, t) = 1000
    /\ CredenceOf(result.value) = 1000

\* C2: every score is clamped to [0, 1] for every input record, also when
\* information_transfer or a band power lies outside its conventional range.
C2_ScoresClampedForAnyInput ==
    Returned => \A t \in TheorySet : ScoreOf(result.value, t) \in 0..1000

\* every assessor's chain and history against the log of its successful calls
C3_LockstepState ==
    \A a \in Assessors :
        /\ Len(assessments[a]) = Len(call_log[a])
        /\ Len(proof_chain[a]) = Len(call_log[a]) + 1
        /\ proof_chain[a][1] = GENESIS
        /\ \A i \in 1..Len(assessments[a]) :
               WithoutProof(assessments[a][i]) =
                   ComputedInSpec[call_log[a][i].spike_data,
                                  call_log[a][i].now].assessment

\* a step extends both sequences by one entry or neither, at the end
C3_AppendOnlyStep ==
    \A a \in Assessors :
        /\ Len(assessments'[a]) \in {Len(assessments[a]), Len(assessments[a]) + 1}
        /\ Len(proof_chain'[a]) - Len(proof_chain[a]) =
               Len(assessments'[a]) - Len(assessments[a])
        /\ SubSeq(assessments'[a], 1, Len(assessments[a])) = assessments[a]
        /\ SubSeq(proof_chain'[a], 1, Len(proof_chain[a])) = proof_chain[a]

\* C3: a new assessor has proof_chain = ["GENESIS"] and an empty history; after
\* N successful calls the chain has N+1 entries with GENESIS first and the
\* history has N entries in call order; every call leaves the earlier entries
\* of both unchanged and extends both by one or neither.
C3_AppendOnlyLockstep == [](C3_LockstepState) /\ [][C3_AppendOnlyStep]_vars

\* C3 witness: both assessors hold assessments, one of them two.
C3_Witness ==
    /\ Len(assessments["a1"]) = 2
    /\ Len(assessments["a2"]) = 1
    /\ Len(proof_chain["a1"]) = 3

\* C4: a call that ends in an error has extended neither the proof chain nor
\* the history: the assessor's state equals its state before the call.
C4_FailedCallChangesNothing ==
    [][(ncalls' = ncalls + 1 /\ result'.raised) =>
           (assessments' = assessments /\ proof_chain' = proof_chain)]_vars

\* C4 witness: a call has raised on an assessor that already holds an
\* assessment.
C4_Witness ==
    /\ result.op = "assess_from_spikes"
    /\ result.raised
    /\ Len(assessments[result.assessor]) >= 1

\* C5: after the k-th successful call, chain entry k is the first 32 hex
\* characters of the digest of the k-th stored assessment without its proof
\* field, a function of that content alone, and the proof field is "sha256:"
\* followed by chain entry k.
C5_ChainEntryIsDigestOfContent ==
    Returned =>
        LET a == result.assessor
            k == Len(assessments[a])
        IN  /\ k >= 1
            /\ k + 1 \in DOMAIN proof_chain[a]
            /\ proof_chain[a][k + 1] =
                   SubSeq(Sha256Hex(JsonDumps(WithoutProof(assessments[a][k]))),
                          1, 32)
            /\ Len(proof_chain[a][k + 1]) = 32
            /\ assessments[a][k].v.proof =
                   PyStr(<<"s", "h", "a", "2", "5", "6", ":">>
                             \o proof_chain[a][k + 1])

\* C5 witness: the second call on an assessor assessed the record of the first
\* at another time, and its chain entry differs from the first.
C5_Witness ==
    /\ Returned
    /\ Len(assessments[result.assessor]) = 2
    /\ call_log[result.assessor][1].spike_data = result.spike_data
    /\ proof_chain[result.assessor][2] # proof_chain[result.assessor][3]

\* C6: two calls with identical input return identical indicators and summary,
\* on the same assessor after intervening calls or on different assessors.
C6_SameInputSameIndicators ==
    \A a \in Assessors, b \in Assessors :
        \A i \in 1..Len(assessments[a]), j \in 1..Len(assessments[b]) :
            call_log[a][i].spike_data = call_log[b][j].spike_data =>
                /\ assessments[a][i].v.indicators = assessments[b][j].v.indicators
                /\ assessments[a][i].v.summary = assessments[b][j].v.summary

\* C6 witness: the same record assessed twice on one assessor at different
\* times with another record in between, or on both assessors.
C6_Witness ==
    \/ /\ Len(call_log["a1"]) = 3
       /\ call_log["a1"][1].spike_data = call_log["a1"][3].spike_data
       /\ call_log["a1"][1].spike_data # call_log["a1"][2].spike_data
       /\ call_log["a1"][1].now # call_log["a1"][3].now
    \/ /\ Len(call_log["a1"]) = 2
       /\ Len(call_log["a2"]) = 1
       /\ call_log["a1"][1].spike_data = call_log["a2"][1].spike_data
       /\ call_log["a1"][1].now # call_log["a2"][1].now

\* C7: status() returns the number of successful calls made so far on the
\* wrapped assessor, the fixed module string and the four capability tags, and
\* leaves the history and the proof chain unchanged.
C7_StatusReadsLive ==
    [][result'.op = "status" =>
           /\ result'.value.assessments = Len(call_log'[bridge'])
           /\ result'.value.module = "ORION-Brian2-Consciousness"
           /\ result'.value.capabilities =
                  <<"snn_consciousness_assessment", "spike_train_analysis",
                    "oscillation_mapping", "14_indicator_assessment">>
           /\ assessments' = assessments
           /\ proof_chain' = proof_chain]_vars

\* C7 witness: status() reports two assessments on a bridge built when the
\* wrapped assessor held fewer, the other assessor holding a different number.
C7_Witness ==
    /\ result.op = "status"
    /\ result.value.assessments = 2
    /\ built_at < 2
    /\ \E a \in Assessors : a # bridge /\ Len(assessments[a]) = 1

\* what a call on the empty record does
C8_EmptyInputStep ==
    (ncalls' = ncalls + 1 /\ result'.spike_data = EmptyInput) =>
        /\ ~result'.raised
        /\ \A t \in TheorySet : ScoreOf(result'.value, t) = 0
        /\ CredenceOf(result'.value) = 0
        /\ SatisfiedOf(result'.value) = <<"0", "/", "1", "4">>
        /\ assessments'[result'.assessor] =
               Append(assessments[result'.assessor], result'.value)
        /\ Len(proof_chain'[result'.assessor]) =
               Len(proof_chain[result'.assessor]) + 1

\* C8: a call on the empty record succeeds, returns five scores of 0.0,
\* credence 0.0 and satisfied_indicators "0/14", and appends one entry to the
\* history and one to the proof chain.
C8_EmptyInputAllZero == [][C8_EmptyInputStep]_vars

\* C8 witness: the empty record was assessed on an assessor that already held
\* an assessment.
C8_Witness ==
    /\ Returned
    /\ result.spike_data = EmptyInput
    /\ Len(assessments[result.assessor]) >= 2

\* the sub-signals of the returned indicators whose value is the boolean true
TrueSubSignals(assessment) ==
    {p \in UNION {{t} \X DOMAIN assessment.v.indicators.v[t].v : t \in TheorySet} :
        /\ p[2] # "score"
        /\ assessment.v.indicators.v[p[1]].v[p[2]] = PyBool(TRUE)}

\* C9: satisfied_indicators is "<k>/14", k the number of sub-signals of the
\* five indicators, score fields excluded, whose value is the boolean true;
\* the denominator is 14 whatever that number is.
C9_SatisfiedCountsBooleanTrue ==
    Returned =>
        SatisfiedOf(result.value) =
            DecStr(Cardinality(TrueSubSignals(result.value))) \o <<"/", "1", "4">>

\* C9 witness: ten sub-signals are true and a truthy sub-signal that is no
\* boolean (feedback_depth 6) is present.
C9_Witness ==
    /\ Returned
    /\ Cardinality(TrueSubSignals(result.value)) = 10
    /\ result.value.v.indicators.v["RPT"].v.feedback_depth = PyNum(6)

Given(k, default) == DictGet(result.spike_data, k, default)

\* the RPT formula on the last call's record, in 1/10000
RptFormula ==
    Min(10000,
        (IF Given("network_recurrence", PyBool(FALSE)).v THEN 3000 ELSE 0)
      + (IF Given("recurrence_depth", PyNum(0)).v > 3 THEN 2000 ELSE 0)
      + (IF Given("has_top_down_connections", PyBool(FALSE)).v THEN 2000 ELSE 0)
      + (IF DictGet(Bands(result.spike_data), "gamma", PyNum(0)).v > 0
            THEN 3 * Min(1000, 2 * DictGet(Bands(result.spike_data), "gamma",
                                           PyNum(0)).v)
            ELSE 0))

Broadcast ==
    /\ Given("synchrony_index", PyNum(0)).v > 500
    /\ Given("n_neurons", PyNum(0)).v > 500

Ignition ==
    /\ DictGet(Bands(result.spike_data), "gamma", PyNum(0)).v > 400
    /\ Given("synchrony_index", PyNum(0)).v > 600

\* the GWT formula on the last call's record, in 1/10000
GwtFormula ==
    Min(10000,
        (IF Broadcast THEN 4000 ELSE 0)
      + (IF Ignition THEN 3000 ELSE 0)
      + 3 * Given("information_transfer", PyNum(0)).v)

====
